---- MODULE Spec2Model ----
(***************************************************************************)
(* Model of the two WLST container scripts of the weblogic-jms-mp example: *)
(*   create-wls-domain.py   creates a domain from the default template     *)
(*   setupTestJMSQueue.py   provisions JMS resources on a running server   *)
(* A behaviour is the execution of one of the two scripts (setupTestJMS-   *)
(* Queue.py possibly re-run against the same server).  pc is the line of   *)
(* the next top-level statement; calls is the log of the WLST calls the    *)
(* current run has issued; wlst is the state held by the WLST interpreter  *)
(* and the server it talks to.                                             *)
(***************************************************************************)
EXTENDS Integers, Sequences, FiniteSets, TLC

VARIABLES script, pc, failed, calls, env, globals, wlst, run, runInput, prev

vars == <<script, pc, failed, calls, env, globals, wlst, run, runInput, prev>>

\* Number of times setupTestJMSQueue.py is run against the same server.
MaxRuns == 2

(***************************************************************************)
(* Values passed to and returned by WLST calls.  One record shape for all  *)
(* Python values so that any two values can be compared.                   *)
(***************************************************************************)
VNone == [t |-> "none", s |-> "", p |-> <<>>, n |-> 0, ss |-> {}]
VStr(x) == [t |-> "str", s |-> x, p |-> <<>>, n |-> 0, ss |-> {}]
VPath(x) == [t |-> "path", s |-> "", p |-> x, n |-> 0, ss |-> {}]
VInt(x) == [t |-> "int", s |-> "", p |-> <<>>, n |-> x, ss |-> {}]
VSet(x) == [t |-> "set", s |-> "", p |-> <<>>, n |-> 0, ss |-> x]

\* A WLST call: the command, its arguments, its result, the source line.
Call(op, args, ret, line) == [op |-> op, args |-> args, ret |-> ret, line |-> line]

\* The root of an MBean tree, '/'.  A path is the sequence of its components;
\* an absolute path starts with "/".
Root == <<"/">>

(***************************************************************************)
(* Python: os.environ.get and int().  An environment string that is parsed *)
(* as a number is a sequence of one-character strings.                     *)
(***************************************************************************)
Unset(dummy) == [set |-> FALSE, val |-> dummy]
SetTo(v) == [set |-> TRUE, val |-> v]

os_environ_get_ignoring(key, default) == default

os_environ_get(key, default) == IF env[key].set THEN env[key].val ELSE default

DigitValue == [c \in {"0", "1", "2", "3", "4", "5", "6", "7", "8", "9"} |->
                 CASE c = "0" -> 0 [] c = "1" -> 1 [] c = "2" -> 2 [] c = "3" -> 3
                   [] c = "4" -> 4 [] c = "5" -> 5 [] c = "6" -> 6 [] c = "7" -> 7
                   [] c = "8" -> 8 [] c = "9" -> 9]

\* The characters that int() skips: blank, tab, newline, carriage return,
\* form feed and vertical tab (the character 0x0B, written literally).
Whitespace == {" ", "\t", "\n", "\r", "\f", ""}

RECURSIVE LStrip(_)
LStrip(s) == IF s # <<>> /\ Head(s) \in Whitespace THEN LStrip(Tail(s)) ELSE s

RECURSIVE RStrip(_)
RStrip(s) ==
  IF s # <<>> /\ s[Len(s)] \in Whitespace THEN RStrip(SubSeq(s, 1, Len(s) - 1)) ELSE s

RECURSIVE DigitsValue(_)
DigitsValue(s) == IF s = <<>> THEN 0
                  ELSE 10 * DigitsValue(SubSeq(s, 1, Len(s) - 1)) + DigitValue[s[Len(s)]]

\* int(str): surrounding whitespace is skipped, then one optional sign and
\* the whitespace after it, then one or more decimal digits; anything else
\* raises ValueError (ok = FALSE).
int(s) ==
  LET t == RStrip(LStrip(s))
      signed == t # <<>> /\ Head(t) \in {"+", "-"}
      body == IF signed THEN LStrip(Tail(t)) ELSE t
      ok == body # <<>> /\ \A i \in 1..Len(body) : body[i] \in DOMAIN DigitValue
  IN [ok |-> ok,
      val |-> IF ~ok THEN 0
              ELSE IF signed /\ Head(t) = "-" THEN 0 - DigitsValue(body)
              ELSE DigitsValue(body)]

(***************************************************************************)
(* The WLST interpreter and the MBean trees it works on.                   *)
(*   cwd        current MBean (cmo), as a path                             *)
(*   beans      MBeans created in the tree being edited                    *)
(*   attrs      attribute values set in the tree being edited              *)
(*   options    setOption values                                           *)
(*   template   "none" | "open" | "closed"                                 *)
(*   written    the domain written by writeDomain                          *)
(*   connected  a session with the server is open                          *)
(*   editing    the edit lock is held                                      *)
(*   pending    the tree as of the last save()                             *)
(*   config     the tree as of the last activate()                         *)
(***************************************************************************)
Tree(st) == [beans |-> st.beans, attrs |-> st.attrs]

SetAttr(attrs, path, name, v) ==
  [k \in DOMAIN attrs \cup {<<path, name>>} |->
     IF k = <<path, name>> THEN v ELSE attrs[k]]

GetAttr(attrs, path, name) ==
  IF <<path, name>> \in DOMAIN attrs THEN attrs[<<path, name>>] ELSE VNone

\* cd(path): absolute when the path starts with '/', else relative to cwd.
cd(cwd, path) == IF path # <<>> /\ path[1] = "/" THEN path ELSE cwd \o path

\* ls(returnMap='true'): the names of the children of the current MBean.
ls(st) == {b[Len(b)] : b \in {x \in st.beans : Len(x) = Len(st.cwd) + 1
                                               /\ SubSeq(x, 1, Len(st.cwd)) = st.cwd}}

\* The folder under which create(name, type) puts the new MBean
\* (the scripts cd to it right after creating).
ChildFolder(type) == IF type = "JMSSystemResource" THEN "SystemResources" ELSE type

\* The effect of one successful call on the interpreter state.
ApplyCall(st, c) ==
  CASE c.op = "readTemplate" -> [st EXCEPT !.template = "open", !.cwd = Root]
    [] c.op = "closeTemplate" -> [st EXCEPT !.template = "closed"]
    [] c.op = "cd" -> [st EXCEPT !.cwd = cd(st.cwd, c.args[1].p)]
    [] c.op = "set" ->
         [st EXCEPT !.attrs = SetAttr(st.attrs, st.cwd, c.args[1].s, c.args[2])]
    [] c.op = "setOption" ->
         [st EXCEPT !.options = SetAttr(st.options, Root, c.args[1].s, c.args[2])]
    [] c.op = "create" ->
         [st EXCEPT !.beans = @ \cup {st.cwd \o <<ChildFolder(c.args[2].s), c.args[1].s>>}]
    [] c.op = "cmo.setName" ->
         [st EXCEPT !.attrs = SetAttr(st.attrs, st.cwd, "Name", c.args[1])]
    [] c.op = "cmo.setPassword" ->
         [st EXCEPT !.attrs = SetAttr(st.attrs, st.cwd, "Password", c.args[1])]
    [] c.op = "writeDomain" ->
         [st EXCEPT !.written = [done |-> TRUE, path |-> c.args[1].s,
                                 attrs |-> st.attrs, options |-> st.options]]
    [] c.op = "connect" -> [st EXCEPT !.connected = TRUE, !.cwd = Root]
    [] c.op = "edit" -> [st EXCEPT !.cwd = Root]
    [] c.op = "startEdit" -> [st EXCEPT !.editing = TRUE]
    [] c.op = "cmo.createJMSServer" ->
         [st EXCEPT !.beans = @ \cup {st.cwd \o <<"JMSServers", c.args[1].s>>}]
    [] c.op = "cmo.addTarget" ->
         [st EXCEPT !.attrs = SetAttr(st.attrs, st.cwd, "Targets",
              VSet(GetAttr(st.attrs, st.cwd, "Targets").ss \cup {c.args[1].s}))]
    [] c.op = "module.addTarget" ->
         [st EXCEPT !.attrs = SetAttr(st.attrs, c.args[2].p, "Targets",
              VSet(GetAttr(st.attrs, c.args[2].p, "Targets").ss \cup {c.args[1].s}))]
    [] c.op = "module.createSubDeployment" ->
         [st EXCEPT !.beans = @ \cup {c.args[2].p \o <<"SubDeployments", c.args[1].s>>}]
    [] c.op = "cmo.createQueue" ->
         [st EXCEPT !.beans = @ \cup {st.cwd \o <<"Queues", c.args[1].s>>}]
    [] c.op = "cmo.createDistributedQueue" ->
         [st EXCEPT !.beans = @ \cup {st.cwd \o <<"DistributedQueues", c.args[1].s>>}]
    [] c.op = "cmo.createConnectionFactory" ->
         [st EXCEPT !.beans = @ \cup {st.cwd \o <<"ConnectionFactories", c.args[1].s>>}]
    [] c.op = "cmo.createDistributedQueueMember" ->
         [st EXCEPT !.beans = @ \cup {st.cwd \o <<"DistributedQueueMembers", c.args[1].s>>}]
    [] c.op = "cmo.setJNDIName" ->
         [st EXCEPT !.attrs = SetAttr(st.attrs, st.cwd, "JNDIName", c.args[1])]
    [] c.op = "cmo.setSubDeploymentName" ->
         [st EXCEPT !.attrs = SetAttr(st.attrs, st.cwd, "SubDeploymentName", c.args[1])]
    [] c.op = "cmo.setLoadBalancingPolicy" ->
         [st EXCEPT !.attrs = SetAttr(st.attrs, st.cwd, "LoadBalancingPolicy", c.args[1])]
    [] c.op = "save" -> [st EXCEPT !.pending = Tree(st)]
    [] c.op = "activate" -> [st EXCEPT !.config = st.pending, !.editing = FALSE]
    [] c.op = "disconnect" -> [st EXCEPT !.connected = FALSE]
    [] OTHER -> st

RECURSIVE ApplyCalls(_, _)
ApplyCalls(st, cs) == IF cs = <<>> THEN st ELSE ApplyCalls(ApplyCall(st, Head(cs)), Tail(cs))

(***************************************************************************)
(* Execution of one top-level statement that issues the calls cs in order. *)
(* Any call may fail; a failing call raises an exception that nothing      *)
(* catches, so the script terminates there (pc = 0, failed).               *)
(***************************************************************************)
Exec_continue(cs, next) ==
  \E k \in 0..Len(cs) :
    LET ok == k = Len(cs) IN
      /\ wlst' = ApplyCalls(wlst, SubSeq(cs, 1, k))
      /\ calls' = calls \o (IF ok THEN cs ELSE SubSeq(cs, 1, k + 1))
      /\ failed' = (failed \/ ~ok)
      /\ pc' = next

Exec(cs, next) ==
  \E k \in 0..Len(cs) :
    LET ok == k = Len(cs) IN
      /\ wlst' = ApplyCalls(wlst, SubSeq(cs, 1, k))
      /\ calls' = calls \o (IF ok THEN cs ELSE SubSeq(cs, 1, k + 1))
      /\ failed' = ~ok
      /\ pc' = IF ok THEN next ELSE 0

(***************************************************************************)
(* create-wls-domain.py                                                    *)
(***************************************************************************)
\* username and password are not defined by the script; WLST loads them
\* from a properties file before the script runs.
username == "myuser"
password == "mypassword1"

\* Lines 25-31: the settings read from the environment, when both int()
\* succeed.
ReadEnvironmentGlobals ==
  LET domain_name == os_environ_get("DOMAIN_NAME", "base_domain") IN
    [globals EXCEPT
       !.domain_name = domain_name,
       !.admin_name = os_environ_get("ADMIN_NAME", "AdminServer"),
       !.admin_listen_port = int(os_environ_get("ADMIN_LISTEN_PORT", <<"7", "0", "0", "1">>)).val,
       !.domain_path = "/u01/oracle/user_projects/domains/" \o domain_name,
       !.production_mode = os_environ_get("PRODUCTION_MODE", "prod"),
       !.administration_port_enabled = os_environ_get("ADMINISTRATION_PORT_ENABLED", "true"),
       !.administration_port = int(os_environ_get("ADMINISTRATION_PORT", <<"9", "0", "0", "2">>)).val]

ReadEnvironmentOk ==
  /\ int(os_environ_get("ADMIN_LISTEN_PORT", <<"7", "0", "0", "1">>)).ok
  /\ int(os_environ_get("ADMINISTRATION_PORT", <<"9", "0", "0", "2">>)).ok

\* The assignments run one after the other: int() of a value that is not a
\* number raises ValueError at line 27 or at line 31, before any WLST call,
\* and the globals assigned by the lines before it keep their values.
ReadEnvironmentPartial ==
  LET all == ReadEnvironmentGlobals IN
    IF ~int(os_environ_get("ADMIN_LISTEN_PORT", <<"7", "0", "0", "1">>)).ok
      THEN [globals EXCEPT !.domain_name = all.domain_name, !.admin_name = all.admin_name]
      ELSE [all EXCEPT !.administration_port = globals.administration_port]

ReadEnvironment ==
  /\ script = "domain" /\ pc = 25
  /\ IF ReadEnvironmentOk
       THEN /\ globals' = ReadEnvironmentGlobals
            /\ pc' = 43
            /\ failed' = FALSE
       ELSE /\ globals' = ReadEnvironmentPartial
            /\ pc' = 0
            /\ failed' = TRUE
  /\ UNCHANGED <<script, calls, env, wlst, run, runInput, prev>>

\* Line 43.
ReadTemplateCalls ==
  << Call("readTemplate", <<VStr("/u01/oracle/wlserver/common/templates/wls/wls.jar")>>, VNone, 43) >>

ReadTemplate ==
  /\ script = "domain" /\ pc = 43
  /\ Exec(ReadTemplateCalls, 45)
  /\ UNCHANGED <<script, env, globals, run, runInput, prev>>

\* Lines 45-46.
SetDomainNameCalls(g) ==
  << Call("set", <<VStr("Name"), VStr(g.domain_name)>>, VNone, 45),
     Call("setOption", <<VStr("DomainName"), VStr(g.domain_name)>>, VNone, 46) >>

SetDomainName ==
  /\ script = "domain" /\ pc = 45
  /\ Exec(SetDomainNameCalls(globals), 50)
  /\ UNCHANGED <<script, env, globals, run, runInput, prev>>

\* Lines 50-52.
SetAdministrationPortCalls_always(g) ==
  << Call("set", <<VStr("AdministrationPort"), VInt(g.administration_port)>>, VNone, 51),
     Call("set", <<VStr("AdministrationPortEnabled"), VStr("false")>>, VNone, 52) >>

SetAdministrationPortCalls(g) ==
  IF g.administration_port_enabled # "false"
    THEN << Call("set", <<VStr("AdministrationPort"), VInt(g.administration_port)>>, VNone, 51),
            Call("set", <<VStr("AdministrationPortEnabled"), VStr("false")>>, VNone, 52) >>
    ELSE <<>>

SetAdministrationPort ==
  /\ script = "domain" /\ pc = 50
  /\ Exec(SetAdministrationPortCalls(globals), 60)
  /\ UNCHANGED <<script, env, globals, run, runInput, prev>>

\* Lines 60-67.
ConfigureAdminServerCalls(g) ==
  << Call("cd", <<VPath(<<"/", "Servers", "AdminServer">>)>>, VNone, 60),
     Call("set", <<VStr("Name"), VStr(g.admin_name)>>, VNone, 61),
     Call("set", <<VStr("ListenAddress"), VStr("")>>, VNone, 62),
     Call("set", <<VStr("ListenPort"), VInt(g.admin_listen_port)>>, VNone, 63) >>
  \o IF g.administration_port_enabled # "false"
       THEN << Call("create", <<VStr(g.admin_name), VStr("SSL")>>, VNone, 65),
               Call("cd", <<VPath(<<"SSL", g.admin_name>>)>>, VNone, 66),
               Call("set", <<VStr("Enabled"), VStr("True")>>, VNone, 67) >>
       ELSE <<>>

ConfigureAdminServer ==
  /\ script = "domain" /\ pc = 60
  /\ Exec(ConfigureAdminServerCalls(globals), 71)
  /\ UNCHANGED <<script, env, globals, run, runInput, prev>>

\* Lines 71-73.
DefineUserCalls(g) ==
  << Call("cd", <<VPath(<<"/", "Security", g.domain_name, "User", "weblogic">>)>>, VNone, 71),
     Call("cmo.setName", <<VStr(username)>>, VNone, 72),
     Call("cmo.setPassword", <<VStr(password)>>, VNone, 73) >>

DefineUser ==
  /\ script = "domain" /\ pc = 71
  /\ Exec(DefineUserCalls(globals), 77)
  /\ UNCHANGED <<script, env, globals, run, runInput, prev>>

\* Lines 77-78.
SetOptionsCalls(g) ==
  << Call("setOption", <<VStr("OverwriteDomain"), VStr("true")>>, VNone, 77),
     Call("setOption", <<VStr("ServerStartMode"), VStr(g.production_mode)>>, VNone, 78) >>

SetOptions ==
  /\ script = "domain" /\ pc = 77
  /\ Exec(SetOptionsCalls(globals), 99)
  /\ UNCHANGED <<script, env, globals, run, runInput, prev>>

\* Lines 99-100.
WriteDomainCalls(g) ==
  << Call("writeDomain", <<VStr(g.domain_path)>>, VNone, 99),
     Call("closeTemplate", <<>>, VNone, 100) >>

WriteDomain ==
  /\ script = "domain" /\ pc = 99
  /\ Exec(WriteDomainCalls(globals), 104)
  /\ UNCHANGED <<script, env, globals, run, runInput, prev>>

\* Line 104.
ExitCalls == << Call("exit", <<>>, VNone, 104) >>

Exit ==
  /\ script = "domain" /\ pc = 104
  /\ Exec(ExitCalls, 0)
  /\ UNCHANGED <<script, env, globals, run, runInput, prev>>

(***************************************************************************)
(* setupTestJMSQueue.py                                                    *)
(***************************************************************************)
\* Lines 24-28.
sub_deployment_name == "TestJMSSubdeployment"
jms_module_name == "TestJMSModule"
queue_name == "TestQueue"
factory_name == "TestConnectionFactory"
jms_server_name == "TestJMSServer"

\* Line 54: the ObjectName of a JMS server.
ObjectName(i) == "com.bea:Name=" \o i \o ",Type=JMSServer"

\* Lines 31-38.  st is the interpreter state when the function is entered.
createJMSServer_unguarded(st, adm_name, jms_server_nm) ==
  LET listing == ls([st EXCEPT !.cwd = <<"/", "JMSServers">>]) IN
    << Call("cd", <<VPath(<<"/", "JMSServers">>)>>, VNone, 32),
       Call("ls", <<>>, VSet(listing), 33),
       Call("cd", <<VPath(Root)>>, VNone, 35),
       Call("cmo.createJMSServer", <<VStr(jms_server_nm)>>, VNone, 36),
       Call("cd", <<VPath(<<"/", "JMSServers", jms_server_nm>>)>>, VNone, 37),
       Call("getMBean", <<VStr("/Servers/" \o adm_name)>>, VStr("/Servers/" \o adm_name), 38),
       Call("cmo.addTarget", <<VStr("/Servers/" \o adm_name)>>, VNone, 38) >>

createJMSServer(st, adm_name, jms_server_nm) ==
  LET listing == ls([st EXCEPT !.cwd = <<"/", "JMSServers">>]) IN
    << Call("cd", <<VPath(<<"/", "JMSServers">>)>>, VNone, 32),
       Call("ls", <<>>, VSet(listing), 33) >>
    \o IF Cardinality(listing) = 0
         THEN << Call("cd", <<VPath(Root)>>, VNone, 35),
                 Call("cmo.createJMSServer", <<VStr(jms_server_nm)>>, VNone, 36),
                 Call("cd", <<VPath(<<"/", "JMSServers", jms_server_nm>>)>>, VNone, 37),
                 Call("getMBean", <<VStr("/Servers/" \o adm_name)>>,
                      VStr("/Servers/" \o adm_name), 38),
                 Call("cmo.addTarget", <<VStr("/Servers/" \o adm_name)>>, VNone, 38) >>
         ELSE <<>>

\* Lines 41-55.  module is the MBean that create() returns.
createJMSModule_notargets(st, jms_module_nm, adm_name, sub_deployment_nm) ==
  LET jms_servers == ls([st EXCEPT !.cwd = <<"/", "JMSServers">>])
      module == Root \o <<ChildFolder("JMSSystemResource"), jms_module_nm>>
  IN << Call("cd", <<VPath(<<"/", "JMSServers">>)>>, VNone, 43),
        Call("ls", <<>>, VSet(jms_servers), 44),
        Call("cd", <<VPath(Root)>>, VNone, 45),
        Call("create", <<VStr(jms_module_nm), VStr("JMSSystemResource")>>, VPath(module), 46),
        Call("getMBean", <<VStr("Servers/" \o adm_name)>>, VStr("Servers/" \o adm_name), 47),
        Call("module.addTarget", <<VStr("Servers/" \o adm_name), VPath(module)>>, VNone, 47),
        Call("cd", <<VPath(<<"/", "SystemResources", jms_module_nm>>)>>, VNone, 48),
        Call("module.createSubDeployment", <<VStr(sub_deployment_nm), VPath(module)>>, VNone, 49),
        Call("cd", <<VPath(<<"/", "SystemResources", jms_module_nm,
                             "SubDeployments", sub_deployment_nm>>)>>, VNone, 50),
        Call("set", <<VStr("Targets"), VSet({})>>, VNone, 55) >>

createJMSModule(st, jms_module_nm, adm_name, sub_deployment_nm) ==
  LET jms_servers == ls([st EXCEPT !.cwd = <<"/", "JMSServers">>])
      module == Root \o <<ChildFolder("JMSSystemResource"), jms_module_nm>>
  IN << Call("cd", <<VPath(<<"/", "JMSServers">>)>>, VNone, 43),
        Call("ls", <<>>, VSet(jms_servers), 44),
        Call("cd", <<VPath(Root)>>, VNone, 45),
        Call("create", <<VStr(jms_module_nm), VStr("JMSSystemResource")>>, VPath(module), 46),
        Call("getMBean", <<VStr("Servers/" \o adm_name)>>, VStr("Servers/" \o adm_name), 47),
        Call("module.addTarget", <<VStr("Servers/" \o adm_name), VPath(module)>>, VNone, 47),
        Call("cd", <<VPath(<<"/", "SystemResources", jms_module_nm>>)>>, VNone, 48),
        Call("module.createSubDeployment", <<VStr(sub_deployment_nm), VPath(module)>>, VNone, 49),
        Call("cd", <<VPath(<<"/", "SystemResources", jms_module_nm,
                             "SubDeployments", sub_deployment_nm>>)>>, VNone, 50),
        Call("set", <<VStr("Targets"), VSet({ObjectName(i) : i \in jms_servers})>>, VNone, 55) >>

\* Lines 57-59.
getJMSModulePath(jms_module_nm) ==
  <<"/", "JMSSystemResources", jms_module_nm, "JMSResource", jms_module_nm>>

\* Lines 61-68.
createJMSQueue_nojndi(jms_module_nm, jms_queue_name) ==
  LET jms_module_path == getJMSModulePath(jms_module_nm) IN
    << Call("cd", <<VPath(jms_module_path)>>, VNone, 64),
       Call("cmo.createQueue", <<VStr(jms_queue_name)>>, VNone, 65),
       Call("cd", <<VPath(jms_module_path \o <<"Queues", jms_queue_name>>)>>, VNone, 66),
       Call("cmo.setJNDIName", <<VStr(jms_queue_name)>>, VNone, 67),
       Call("cmo.setSubDeploymentName", <<VStr(sub_deployment_name)>>, VNone, 68) >>

createJMSQueue(jms_module_nm, jms_queue_name) ==
  LET jms_module_path == getJMSModulePath(jms_module_nm) IN
    << Call("cd", <<VPath(jms_module_path)>>, VNone, 64),
       Call("cmo.createQueue", <<VStr(jms_queue_name)>>, VNone, 65),
       Call("cd", <<VPath(jms_module_path \o <<"Queues", jms_queue_name>>)>>, VNone, 66),
       Call("cmo.setJNDIName", <<VStr("jms/" \o jms_queue_name)>>, VNone, 67),
       Call("cmo.setSubDeploymentName", <<VStr(sub_deployment_name)>>, VNone, 68) >>

\* Lines 70-76.
createDistributedJMSQueue(jms_module_nm, jms_queue_name) ==
  LET jms_module_path == getJMSModulePath(jms_module_nm) IN
    << Call("cd", <<VPath(jms_module_path)>>, VNone, 73),
       Call("cmo.createDistributedQueue", <<VStr(jms_queue_name)>>, VNone, 74),
       Call("cd", <<VPath(jms_module_path \o <<"DistributedQueues", jms_queue_name>>)>>, VNone, 75),
       Call("cmo.setJNDIName", <<VStr("jms/" \o jms_queue_name)>>, VNone, 76) >>

\* Lines 78-82.
addMemberQueue(udd_name, queue_nm) ==
  LET jms_module_path == getJMSModulePath(jms_module_name) IN
    << Call("cd", <<VPath(jms_module_path \o <<"DistributedQueues", udd_name>>)>>, VNone, 80),
       Call("cmo.setLoadBalancingPolicy", <<VStr("Round-Robin")>>, VNone, 81),
       Call("cmo.createDistributedQueueMember", <<VStr(queue_nm)>>, VNone, 82) >>

\* Lines 84-91.
createJMSFactory(jms_module_nm, jms_fact_name) ==
  LET jms_module_path == getJMSModulePath(jms_module_nm) IN
    << Call("cd", <<VPath(jms_module_path)>>, VNone, 87),
       Call("cmo.createConnectionFactory", <<VStr(jms_fact_name)>>, VNone, 88),
       Call("cd", <<VPath(jms_module_path \o <<"ConnectionFactories", jms_fact_name>>)>>, VNone, 89),
       Call("cmo.setJNDIName", <<VStr("jms/" \o jms_fact_name)>>, VNone, 90),
       Call("cmo.setSubDeploymentName", <<VStr(sub_deployment_name)>>, VNone, 91) >>

JmsRest == <<script, env, globals, run, runInput, prev>>

\* Line 22 (line 20 sets a JVM system property and issues no WLST call).
ConnectCalls ==
  << Call("connect", <<VStr("admin"), VStr("Welcome1"), VStr("t3://localhost:7001")>>, VNone, 22) >>

Connect ==
  /\ script = "jms" /\ pc = 22
  /\ Exec(ConnectCalls, 23)
  /\ UNCHANGED JmsRest

\* Line 23.
GetAdminServerNameCalls(st) ==
  << Call("get", <<VStr("AdminServerName")>>, GetAttr(st.attrs, Root, "AdminServerName"), 23) >>

GetAdminServerName ==
  /\ script = "jms" /\ pc = 23
  /\ Exec(GetAdminServerNameCalls(wlst), 95)
  /\ globals' = IF failed' THEN globals
                ELSE [globals EXCEPT !.adm_name = GetAttr(wlst.attrs, Root, "AdminServerName").s]
  /\ UNCHANGED <<script, env, run, runInput, prev>>

\* Line 95.
EditCalls == << Call("edit", <<>>, VNone, 95) >>

Edit ==
  /\ script = "jms" /\ pc = 95
  /\ Exec(EditCalls, 96)
  /\ UNCHANGED JmsRest

\* Line 96.
StartEditCalls_missing == <<>>

StartEditCalls == << Call("startEdit", <<>>, VNone, 96) >>

StartEdit ==
  /\ script = "jms" /\ pc = 96
  /\ Exec(StartEditCalls, 100)
  /\ UNCHANGED JmsRest

\* Line 100.
CreateServer ==
  /\ script = "jms" /\ pc = 100
  /\ Exec(createJMSServer(wlst, globals.adm_name, jms_server_name), 101)
  /\ UNCHANGED JmsRest

\* Line 101.
CreateModule_factoryFirst ==
  /\ script = "jms" /\ pc = 101
  /\ Exec(createJMSFactory(jms_module_name, factory_name)
          \o createJMSModule(wlst, jms_module_name, globals.adm_name, sub_deployment_name), 102)
  /\ UNCHANGED JmsRest

CreateModule ==
  /\ script = "jms" /\ pc = 101
  /\ Exec(createJMSModule(wlst, jms_module_name, globals.adm_name, sub_deployment_name), 102)
  /\ UNCHANGED JmsRest

\* Line 102.
CreateFactory ==
  /\ script = "jms" /\ pc = 102
  /\ Exec(createJMSFactory(jms_module_name, factory_name), 103)
  /\ UNCHANGED JmsRest

\* Line 103.
CreateQueue ==
  /\ script = "jms" /\ pc = 103
  /\ Exec(createJMSQueue(jms_module_name, queue_name), 106)
  /\ UNCHANGED JmsRest

\* Line 106.
CreateDistributedQueue ==
  /\ script = "jms" /\ pc = 106
  /\ Exec(createDistributedJMSQueue(jms_module_name, "udd_queue"), 108)
  /\ UNCHANGED JmsRest

\* Line 108.
CreateMember1 ==
  /\ script = "jms" /\ pc = 108
  /\ Exec(createJMSQueue(jms_module_name, "ms1@udd_queue"), 109)
  /\ UNCHANGED JmsRest

\* Line 109.
CreateMember2 ==
  /\ script = "jms" /\ pc = 109
  /\ Exec(createJMSQueue(jms_module_name, "ms2@udd_queue"), 110)
  /\ UNCHANGED JmsRest

\* Line 110.
AddMember1 ==
  /\ script = "jms" /\ pc = 110
  /\ Exec(addMemberQueue("udd_queue", "ms1@udd_queue"), 111)
  /\ UNCHANGED JmsRest

\* Line 111.
AddMember2 ==
  /\ script = "jms" /\ pc = 111
  /\ Exec(addMemberQueue("udd_queue", "ms2@udd_queue"), 113)
  /\ UNCHANGED JmsRest

\* Line 113.
SaveCalls == << Call("save", <<>>, VNone, 113) >>

Save ==
  /\ script = "jms" /\ pc = 113
  /\ Exec(SaveCalls, 114)
  /\ UNCHANGED JmsRest

\* Line 114.
ActivateCalls == << Call("activate", <<VStr("true")>>, VNone, 114) >>

Activate ==
  /\ script = "jms" /\ pc = 114
  /\ Exec(ActivateCalls, 115)
  /\ UNCHANGED JmsRest

\* Line 115.
DisconnectCalls_missing == <<>>

DisconnectCalls == << Call("disconnect", <<>>, VNone, 115) >>

Disconnect ==
  /\ script = "jms" /\ pc = 115
  /\ Exec(DisconnectCalls, 0)
  /\ UNCHANGED JmsRest

(***************************************************************************)
(* Running setupTestJMSQueue.py again against the same server.  The old    *)
(* interpreter is gone; whether the server keeps the edits that were never *)
(* saved is up to the server, so both outcomes are possible.  The edit     *)
(* lock of user admin is still held when activate() was not reached.       *)
(***************************************************************************)
Rerun ==
  /\ script = "jms" /\ pc = 0 /\ run < MaxRuns
  /\ \E t \in {Tree(wlst), wlst.pending} :
       /\ wlst' = [wlst EXCEPT !.beans = t.beans, !.attrs = t.attrs,
                               !.cwd = Root, !.connected = FALSE]
       /\ runInput' = t
  /\ prev' = [valid |-> TRUE, input |-> runInput, calls |-> calls]
  /\ run' = run + 1
  /\ pc' = 22
  /\ failed' = FALSE
  /\ calls' = <<>>
  /\ globals' = [globals EXCEPT !.adm_name = ""]
  /\ UNCHANGED <<script, env>>

(***************************************************************************)
(* Initial states: the environment of create-wls-domain.py, or the server  *)
(* that setupTestJMSQueue.py connects to.                                  *)
(***************************************************************************)
EmptyAttrs == [k \in {} |-> VNone]

EnvChoices ==
  [DOMAIN_NAME : {Unset(""), SetTo("mydomain")},
   ADMIN_NAME : {Unset(""), SetTo("admin-server")},
   ADMIN_LISTEN_PORT : {Unset(<<>>), SetTo(<<"8", "0", "0", "1">>),
                        SetTo(<<" ", "\t", "7", "1", "\n">>), SetTo(<<"8", "0", "a", "1">>)},
   PRODUCTION_MODE : {Unset(""), SetTo("dev")},
   ADMINISTRATION_PORT_ENABLED : {Unset(""), SetTo("true"), SetTo("false")},
   ADMINISTRATION_PORT : {Unset(<<>>), SetTo(<<"9", "0", "0", "3">>),
                          SetTo(<<"+", " ", "9", "4">>), SetTo(<<>>)}]

NoEnv ==
  [DOMAIN_NAME |-> Unset(""), ADMIN_NAME |-> Unset(""), ADMIN_LISTEN_PORT |-> Unset(<<>>),
   PRODUCTION_MODE |-> Unset(""), ADMINISTRATION_PORT_ENABLED |-> Unset(""),
   ADMINISTRATION_PORT |-> Unset(<<>>)]

\* The JMS servers the domain has before the first run, and the name of its
\* administration server.
InitialJMSServers == {{}, {"JMSServer-0"}, {"JMSServer-0", "JMSServer-1"}}
AdminServerNames == {"AdminServer", "admin-server"}

NoGlobals ==
  [domain_name |-> "", admin_name |-> "", admin_listen_port |-> 0, domain_path |-> "",
   production_mode |-> "", administration_port_enabled |-> "", administration_port |-> 0,
   adm_name |-> ""]

InitWlst(servers, adminServerName) ==
  LET beans == {<<"/", "JMSServers", n>> : n \in servers}
      attrs == IF adminServerName = "" THEN EmptyAttrs
               ELSE SetAttr(EmptyAttrs, Root, "AdminServerName", VStr(adminServerName))
  IN [cwd |-> Root, beans |-> beans, attrs |-> attrs, options |-> EmptyAttrs,
      template |-> "none",
      written |-> [done |-> FALSE, path |-> "", attrs |-> EmptyAttrs, options |-> EmptyAttrs],
      connected |-> FALSE, editing |-> FALSE,
      pending |-> [beans |-> beans, attrs |-> attrs],
      config |-> [beans |-> beans, attrs |-> attrs]]

Init ==
  /\ script \in {"domain", "jms"}
  /\ failed = FALSE
  /\ calls = <<>>
  /\ globals = NoGlobals
  /\ run = 1
  /\ IF script = "domain"
       THEN /\ pc = 25
            /\ env \in EnvChoices
            /\ wlst = InitWlst({}, "")
       ELSE /\ pc = 22
            /\ env = NoEnv
            /\ \E servers \in InitialJMSServers, a \in AdminServerNames :
                 wlst = InitWlst(servers, a)
  /\ runInput = Tree(wlst)
  /\ prev = [valid |-> FALSE, input |-> Tree(wlst), calls |-> <<>>]

Next ==
  \/ ReadEnvironment \/ ReadTemplate \/ SetDomainName \/ SetAdministrationPort
  \/ ConfigureAdminServer \/ DefineUser \/ SetOptions \/ WriteDomain \/ Exit
  \/ Connect \/ GetAdminServerName \/ Edit \/ StartEdit
  \/ CreateServer \/ CreateModule \/ CreateFactory \/ CreateQueue
  \/ CreateDistributedQueue \/ CreateMember1 \/ CreateMember2
  \/ AddMember1 \/ AddMember2 \/ Save \/ Activate \/ Disconnect
  \/ Rerun

Spec == Init /\ [][Next]_vars

(***************************************************************************)
(* Properties.                                                             *)
(***************************************************************************)
Done == pc = 0 /\ ~failed
Aborted == pc = 0 /\ failed
Last == calls[Len(calls)]
HasCall(op) == \E i \in DOMAIN calls : calls[i].op = op
Count(op) == Cardinality({i \in DOMAIN calls : calls[i].op = op})
IsSet(c, attr) == c.op = "set" /\ c.args[1] = VStr(attr)
IsOption(c, opt) == c.op = "setOption" /\ c.args[1] = VStr(opt)
JMSServersOf(tree) ==
  {b[3] : b \in {x \in tree.beans : Len(x) = 3 /\ x[1] = "/" /\ x[2] = "JMSServers"}}

\* The environment read succeeded (a failure there aborts before any call).
EnvironmentRead == script = "domain" /\ pc # 25 /\ ~(failed /\ calls = <<>>)

\* The numbers that the port strings of EnvChoices denote (-1: not a number).
PortNumber(v) ==
  CASE v = <<"8", "0", "0", "1">> -> 8001
    [] v = <<" ", "\t", "7", "1", "\n">> -> 71
    [] v = <<"9", "0", "0", "3">> -> 9003
    [] v = <<"+", " ", "9", "4">> -> 94
    [] OTHER -> -1

ExpectedDomainName == IF env.DOMAIN_NAME.set THEN env.DOMAIN_NAME.val ELSE "base_domain"
ExpectedAdminName == IF env.ADMIN_NAME.set THEN env.ADMIN_NAME.val ELSE "AdminServer"
ExpectedListenPort ==
  IF env.ADMIN_LISTEN_PORT.set THEN PortNumber(env.ADMIN_LISTEN_PORT.val) ELSE 7001
ExpectedMode == IF env.PRODUCTION_MODE.set THEN env.PRODUCTION_MODE.val ELSE "prod"
ExpectedEnabled ==
  IF env.ADMINISTRATION_PORT_ENABLED.set THEN env.ADMINISTRATION_PORT_ENABLED.val ELSE "true"
ExpectedAdministrationPort ==
  IF env.ADMINISTRATION_PORT.set THEN PortNumber(env.ADMINISTRATION_PORT.val) ELSE 9002

AdminServerPath == <<"/", "Servers", "AdminServer">>

\* C1: in create-wls-domain.py each of the six environment variables yields
\* its documented default when unset (base_domain, AdminServer, 7001, prod,
\* true, 9002) and the set value otherwise, and those are the values passed
\* to Name/DomainName, the server Name, ListenPort, ServerStartMode and
\* AdministrationPort, and found in the domain that is written.
C1_EnvironmentDefaults ==
  /\ script = "domain" /\ pc # 25 =>
       /\ globals.domain_name = ExpectedDomainName
       /\ globals.admin_name = ExpectedAdminName
  /\ EnvironmentRead =>
    /\ globals.domain_name = ExpectedDomainName
    /\ globals.admin_name = ExpectedAdminName
    /\ globals.admin_listen_port = ExpectedListenPort
    /\ globals.production_mode = ExpectedMode
    /\ globals.administration_port_enabled = ExpectedEnabled
    /\ globals.administration_port = ExpectedAdministrationPort
    /\ \A i \in DOMAIN calls :
         /\ (IsSet(calls[i], "Name") /\ calls[i].line = 45
               => calls[i].args[2] = VStr(ExpectedDomainName))
         /\ (IsOption(calls[i], "DomainName") => calls[i].args[2] = VStr(ExpectedDomainName))
         /\ (IsSet(calls[i], "Name") /\ calls[i].line = 61
               => calls[i].args[2] = VStr(ExpectedAdminName))
         /\ (IsSet(calls[i], "ListenPort") => calls[i].args[2] = VInt(ExpectedListenPort))
         /\ (IsOption(calls[i], "ServerStartMode") => calls[i].args[2] = VStr(ExpectedMode))
         /\ (IsSet(calls[i], "AdministrationPort")
               => calls[i].args[2] = VInt(ExpectedAdministrationPort))
    /\ wlst.written.done =>
         /\ GetAttr(wlst.written.attrs, Root, "Name") = VStr(ExpectedDomainName)
         /\ GetAttr(wlst.written.options, Root, "DomainName") = VStr(ExpectedDomainName)
         /\ GetAttr(wlst.written.attrs, AdminServerPath, "Name") = VStr(ExpectedAdminName)
         /\ GetAttr(wlst.written.attrs, AdminServerPath, "ListenPort") = VInt(ExpectedListenPort)
         /\ GetAttr(wlst.written.options, Root, "ServerStartMode") = VStr(ExpectedMode)
         /\ (ExpectedEnabled # "false" =>
               GetAttr(wlst.written.attrs, Root, "AdministrationPort")
                 = VInt(ExpectedAdministrationPort))

C1_Witness ==
  /\ script = "domain" /\ Done /\ wlst.written.done
  /\ env.ADMIN_LISTEN_PORT = SetTo(<<" ", "\t", "7", "1", "\n">>)
  /\ env.ADMINISTRATION_PORT = SetTo(<<"+", " ", "9", "4">>)
  /\ env.ADMIN_NAME.set /\ ~env.DOMAIN_NAME.set /\ ~env.PRODUCTION_MODE.set
  /\ ~env.ADMINISTRATION_PORT_ENABLED.set
  /\ GetAttr(wlst.written.attrs, Root, "AdministrationPort") = VInt(94)

\* C2: when ADMINISTRATION_PORT_ENABLED is "false", create-wls-domain.py never
\* issues the AdministrationPort assignment nor the creation and enabling of
\* the SSL configuration, and a run that reaches its end has issued every
\* other step (domain name, server name, listen port, credentials,
\* writeDomain).
C2_DisabledSkipsPortAndSSL ==
  script = "domain" /\ env.ADMINISTRATION_PORT_ENABLED = SetTo("false") =>
    /\ \A i \in DOMAIN calls :
         /\ ~IsSet(calls[i], "AdministrationPort")
         /\ ~IsSet(calls[i], "AdministrationPortEnabled")
         /\ ~(calls[i].op = "create" /\ calls[i].args[2] = VStr("SSL"))
         /\ ~IsSet(calls[i], "Enabled")
    /\ <<Root, "AdministrationPort">> \notin DOMAIN wlst.attrs
    /\ \A b \in wlst.beans : "SSL" \notin {b[j] : j \in DOMAIN b}
    /\ Done =>
         /\ \E i \in DOMAIN calls : IsSet(calls[i], "Name") /\ calls[i].line = 45
         /\ \E i \in DOMAIN calls : IsOption(calls[i], "DomainName")
         /\ \E i \in DOMAIN calls : IsSet(calls[i], "Name") /\ calls[i].line = 61
         /\ \E i \in DOMAIN calls : IsSet(calls[i], "ListenPort")
         /\ HasCall("cmo.setName") /\ HasCall("cmo.setPassword")
         /\ HasCall("writeDomain") /\ wlst.written.done

C2_Witness ==
  /\ script = "domain" /\ Done /\ wlst.written.done
  /\ env.ADMINISTRATION_PORT_ENABLED = SetTo("false")
  /\ env.ADMINISTRATION_PORT.set

\* C3: when ADMINISTRATION_PORT_ENABLED is unset or "true", the domain that
\* writeDomain writes has AdministrationPort equal to ADMINISTRATION_PORT and
\* AdministrationPortEnabled true.
C3_WrittenDomainUsesAdministrationPort ==
  script = "domain" /\ wlst.written.done /\ ExpectedEnabled = "true" =>
    /\ GetAttr(wlst.written.attrs, Root, "AdministrationPort") = VInt(ExpectedAdministrationPort)
    /\ GetAttr(wlst.written.attrs, Root, "AdministrationPortEnabled") = VStr("true")

(***************************************************************************)
(* Properties of setupTestJMSQueue.py.                                     *)
(***************************************************************************)
ModulePath == <<"/", "JMSSystemResources", "TestJMSModule", "JMSResource", "TestJMSModule">>
SubDeploymentPath ==
  <<"/", "SystemResources", "TestJMSModule", "SubDeployments", "TestJMSSubdeployment">>
UddPath == ModulePath \o <<"DistributedQueues", "udd_queue">>
ChildrenOf(beans, path) ==
  {b[Len(b)] : b \in {x \in beans : Len(x) = Len(path) + 1 /\ SubSeq(x, 1, Len(path)) = path}}
IsCallOf(c, op, name) == c.op = op /\ c.args[1] = VStr(name)

\* C4: a run against a domain that already has a JMS server never issues
\* createJMSServer; the call is issued only after /JMSServers was listed
\* empty, so consecutive runs against a domain that started with no JMS
\* server leave it with at most one JMS server, TestJMSServer.
C4_NoSecondJMSServer ==
  script = "jms" =>
    /\ (JMSServersOf(runInput) # {} => ~HasCall("cmo.createJMSServer"))
    /\ \A i \in DOMAIN calls :
         calls[i].op = "cmo.createJMSServer" =>
           /\ calls[i].args[1] = VStr("TestJMSServer")
           /\ \E j \in 1..(i - 1) :
                calls[j].op = "ls" /\ calls[j].line = 33 /\ calls[j].ret = VSet({})
    /\ Count("cmo.createJMSServer") <= 1
    /\ (JMSServersOf(wlst.config) \cap UNION InitialJMSServers = {} =>
          \A t \in {Tree(wlst), wlst.pending, wlst.config} :
            /\ JMSServersOf(t) \subseteq {"TestJMSServer"}
            /\ Cardinality(JMSServersOf(t)) <= 1)

C4_Witness ==
  /\ script = "jms" /\ run = 2 /\ pc = 101 /\ ~failed
  /\ JMSServersOf(runInput) = {"TestJMSServer"}
  /\ JMSServersOf(Tree(wlst)) = {"TestJMSServer"}
  /\ \E i \in DOMAIN calls : calls[i].op = "ls" /\ calls[i].line = 33
  /\ ~HasCall("cmo.createJMSServer")

\* The step of the provisioning sequence that a creating call belongs to.
Stage(c) ==
  CASE c.op = "cmo.createJMSServer" -> 1
    [] c.op = "create" -> 2
    [] c.op = "module.createSubDeployment" -> 3
    [] c.op = "cmo.createConnectionFactory" -> 4
    [] IsCallOf(c, "cmo.createQueue", "TestQueue") -> 5
    [] c.op = "cmo.createDistributedQueue" -> 6
    [] IsCallOf(c, "cmo.createQueue", "ms1@udd_queue") -> 7
    [] IsCallOf(c, "cmo.createQueue", "ms2@udd_queue") -> 8
    [] IsCallOf(c, "cmo.createDistributedQueueMember", "ms1@udd_queue") -> 9
    [] IsCallOf(c, "cmo.createDistributedQueueMember", "ms2@udd_queue") -> 10
    [] OTHER -> 0

Staged == {i \in DOMAIN calls : Stage(calls[i]) > 0}

\* C5: the calls of setupTestJMSQueue.py are issued in the order JMS server,
\* JMS module and its sub-deployment, connection factory, TestQueue,
\* udd_queue, the member queues and their addition as members; no step is
\* issued before an earlier one, a run that reaches its end has issued all
\* of them, and two runs from the same domain issue the same sequence.
C5_DeterministicOrder ==
  script = "jms" =>
    /\ \A i, j \in Staged : i < j => Stage(calls[i]) < Stage(calls[j])
    /\ Done => {Stage(calls[i]) : i \in Staged}
                 = (IF JMSServersOf(runInput) = {} THEN 1..10 ELSE 2..10)
    /\ prev.valid /\ prev.input = runInput =>
         \A i \in DOMAIN calls \cap DOMAIN prev.calls : calls[i] = prev.calls[i]

C5_Witness ==
  /\ script = "jms" /\ Done /\ run = 2
  /\ prev.valid /\ prev.input = runInput
  /\ JMSServersOf(runInput) = {}
  /\ Len(prev.calls) > 20
  /\ Count("cmo.createDistributedQueueMember") = 2

\* C6: a failing call ends the run: no further call is issued after it, so
\* save() and activate() are not reached after an earlier failure and
\* writeDomain is not reached when an earlier step or the parsing of a port
\* fails; nothing undoes the edits already made.
C6_AbortState ==
  /\ failed => pc = 0
  /\ \A i \in DOMAIN calls : calls[i].op \notin {"undo", "cancelEdit", "stopEdit"}
  /\ failed /\ script = "jms" =>
       /\ (calls # <<>> /\ Last.op \notin {"save", "activate", "disconnect"}
             => ~HasCall("save") /\ ~HasCall("activate"))
       /\ (calls # <<>> /\ Last.op = "save" => ~HasCall("activate"))
       /\ ~HasCall("disconnect") \/ Last.op = "disconnect"
       /\ \A i \in 1..(Len(calls) - 1) :
            calls[i].op = "cmo.createQueue" =>
              (ModulePath \o <<"Queues", calls[i].args[1].s>>) \in wlst.beans
  /\ failed /\ script = "domain" =>
       /\ (calls = <<>> \/ Last.op \notin {"closeTemplate", "exit"} => ~wlst.written.done)
       /\ (calls = <<>> \/ Last.op \notin {"writeDomain", "closeTemplate", "exit"}
             => ~HasCall("writeDomain"))
       /\ (~ReadEnvironmentOk => calls = <<>>)

C6_AbortsWithoutRollback ==
  /\ []C6_AbortState
  /\ [][failed => (calls' = calls \/ (calls' = <<>> /\ run' = run + 1))]_vars

C6_Witness ==
  /\ script = "jms" /\ failed /\ pc = 0
  /\ Last.op = "cmo.setJNDIName"
  /\ HasCall("cmo.createDistributedQueue")
  /\ (ModulePath \o <<"Queues", "TestQueue">>) \in wlst.beans
  /\ ~HasCall("save")

\* C7 as stated: every run that opens the session has closed it when the
\* run ends, also when a step between connect and disconnect failed.
C7_SessionAlwaysClosed ==
  script = "jms" /\ pc = 0 => ~wlst.connected

\* C7 amended: a run issues connect and disconnect at most once each; a run
\* in which no call fails opens the session once and closes it once, the
\* disconnect being its last call; a run in which a call after connect
\* fails ends with the session open.
C7_SessionClosedWhenNoCallFails ==
  script = "jms" =>
    /\ Count("connect") <= 1 /\ Count("disconnect") <= 1
    /\ (Done => /\ Count("connect") = 1 /\ Count("disconnect") = 1
                /\ Last.op = "disconnect"
                /\ ~wlst.connected)
    /\ (Aborted /\ Len(calls) >= 2 => wlst.connected)
    /\ (wlst.connected => calls # <<>> /\ calls[1].op = "connect")

C7_Witness ==
  /\ script = "jms" /\ Done /\ ~wlst.connected
  /\ calls[1].op = "connect" /\ Last.op = "disconnect"

JmsEditOps ==
  {"set", "create", "cmo.createJMSServer", "cmo.addTarget", "module.addTarget",
   "module.createSubDeployment", "cmo.createQueue", "cmo.createDistributedQueue",
   "cmo.createConnectionFactory", "cmo.createDistributedQueueMember",
   "cmo.setJNDIName", "cmo.setSubDeploymentName", "cmo.setLoadBalancingPolicy"}

\* C8: every create or set call on JMS resources is issued after startEdit()
\* and before save(); save() precedes activate(), activate() precedes
\* disconnect(); a run in which no call fails issues startEdit, save,
\* activate and disconnect exactly once each, disconnect last.
C8_EditSessionBrackets ==
  script = "jms" =>
    /\ \A i \in DOMAIN calls :
         /\ (calls[i].op \in JmsEditOps =>
               /\ \E j \in 1..(i - 1) : calls[j].op = "startEdit"
               /\ \A j \in 1..i : calls[j].op # "save")
         /\ (calls[i].op = "activate" => \E j \in 1..(i - 1) : calls[j].op = "save")
         /\ (calls[i].op = "disconnect" => \E j \in 1..(i - 1) : calls[j].op = "activate")
    /\ Done => /\ Count("startEdit") = 1 /\ Count("save") = 1
               /\ Count("activate") = 1 /\ Count("disconnect") = 1
               /\ Last.op = "disconnect"
               /\ \E i \in DOMAIN calls : calls[i].op \in JmsEditOps

C8_Witness ==
  /\ script = "jms" /\ Done
  /\ Count("startEdit") = 1 /\ Count("save") = 1 /\ Count("activate") = 1
  /\ Count("cmo.createQueue") = 3

\* C9 as stated: after a run in which no call fails the sub-deployment targets
\* are not empty: TestJMSServer alone when the run started with no JMS
\* server, otherwise all the servers that existed when the run started and
\* not TestJMSServer.
C9_TargetsExcludeTestJMSServer ==
  script = "jms" /\ Done =>
    LET targets == GetAttr(wlst.attrs, SubDeploymentPath, "Targets").ss IN
      /\ targets # {}
      /\ (JMSServersOf(runInput) = {}
            => targets = {"com.bea:Name=TestJMSServer,Type=JMSServer"})
      /\ (JMSServersOf(runInput) # {}
            => /\ targets = {"com.bea:Name=" \o n \o ",Type=JMSServer" :
                               n \in JMSServersOf(runInput)}
               /\ "com.bea:Name=TestJMSServer,Type=JMSServer" \notin targets)

\* C9 amended: the sub-deployment is targeted at exactly the JMS servers
\* listed under /JMSServers when createJMSModule runs, after createJMSServer;
\* after a run in which no call fails the target set is not empty:
\* TestJMSServer alone when the run started with no JMS server, otherwise
\* exactly the servers that existed when the run started (TestJMSServer
\* among them when it already existed, as on a re-run), the run creating no
\* server; the connection factory and every queue of createJMSQueue are
\* assigned to the sub-deployment.
C9_SubDeploymentTargets ==
  script = "jms" =>
    /\ \A i \in DOMAIN calls :
         calls[i].op = "ls" /\ calls[i].line = 44 =>
           /\ \A j \in DOMAIN calls : calls[j].line \in 32..38 => j < i
           /\ \E j \in 1..(i - 1) : calls[j].op = "ls" /\ calls[j].line = 33
           /\ \A j \in DOMAIN calls :
                IsSet(calls[j], "Targets") =>
                  /\ j > i
                  /\ calls[j].args[2] =
                       VSet({"com.bea:Name=" \o n \o ",Type=JMSServer" : n \in calls[i].ret.ss})
           /\ calls[i].ret.ss =
                (IF JMSServersOf(runInput) = {} /\ HasCall("cmo.createJMSServer")
                   /\ (Last.op # "cmo.createJMSServer" \/ ~failed)
                   THEN {"TestJMSServer"} ELSE JMSServersOf(runInput))
    /\ Done =>
         LET targets == GetAttr(wlst.attrs, SubDeploymentPath, "Targets").ss IN
           /\ targets # {}
           /\ (JMSServersOf(runInput) = {}
                 => targets = {"com.bea:Name=TestJMSServer,Type=JMSServer"})
           /\ (JMSServersOf(runInput) # {}
                 => /\ targets = {"com.bea:Name=" \o n \o ",Type=JMSServer" :
                                    n \in JMSServersOf(runInput)}
                    /\ ~HasCall("cmo.createJMSServer"))
           /\ GetAttr(wlst.attrs, ModulePath \o <<"ConnectionFactories", "TestConnectionFactory">>,
                      "SubDeploymentName") = VStr("TestJMSSubdeployment")
           /\ \A q \in {"TestQueue", "ms1@udd_queue", "ms2@udd_queue"} :
                GetAttr(wlst.attrs, ModulePath \o <<"Queues", q>>, "SubDeploymentName")
                  = VStr("TestJMSSubdeployment")

C9_Witness ==
  /\ script = "jms" /\ Done /\ run = 2
  /\ JMSServersOf(runInput) = {"TestJMSServer"}
  /\ ~HasCall("cmo.createJMSServer")
  /\ GetAttr(wlst.attrs, SubDeploymentPath, "Targets").ss
       = {"com.bea:Name=TestJMSServer,Type=JMSServer"}

\* C10: a queue is added as a member of udd_queue only after udd_queue and
\* that queue were created; after a run in which no call fails udd_queue has
\* exactly the members ms1@udd_queue and ms2@udd_queue, its load-balancing
\* policy is Round-Robin, and every created queue, distributed queue and
\* connection factory has the JNDI name "jms/" followed by its name.
C10_DistributedQueueMembers ==
  script = "jms" =>
    /\ \A i \in DOMAIN calls :
         calls[i].op = "cmo.createDistributedQueueMember" =>
           /\ \E j \in 1..(i - 1) : IsCallOf(calls[j], "cmo.createDistributedQueue", "udd_queue")
           /\ \E j \in 1..(i - 1) : IsCallOf(calls[j], "cmo.createQueue", calls[i].args[1].s)
           /\ i < Len(calls) \/ ~failed =>
                /\ UddPath \in wlst.beans
                /\ (ModulePath \o <<"Queues", calls[i].args[1].s>>) \in wlst.beans
    /\ Done =>
         /\ ChildrenOf(wlst.beans, UddPath \o <<"DistributedQueueMembers">>)
              = {"ms1@udd_queue", "ms2@udd_queue"}
         /\ GetAttr(wlst.attrs, UddPath, "LoadBalancingPolicy") = VStr("Round-Robin")
         /\ ChildrenOf(wlst.beans, ModulePath \o <<"Queues">>)
              = {"TestQueue", "ms1@udd_queue", "ms2@udd_queue"}
         /\ ChildrenOf(wlst.beans, ModulePath \o <<"DistributedQueues">>) = {"udd_queue"}
         /\ ChildrenOf(wlst.beans, ModulePath \o <<"ConnectionFactories">>)
              = {"TestConnectionFactory"}
         /\ \A folder \in {"Queues", "DistributedQueues", "ConnectionFactories"} :
              \A n \in ChildrenOf(wlst.beans, ModulePath \o <<folder>>) :
                GetAttr(wlst.attrs, ModulePath \o <<folder, n>>, "JNDIName") = VStr("jms/" \o n)

C10_Witness ==
  /\ script = "jms" /\ Done
  /\ ChildrenOf(wlst.beans, UddPath \o <<"DistributedQueueMembers">>)
       = {"ms1@udd_queue", "ms2@udd_queue"}
  /\ GetAttr(wlst.attrs, ModulePath \o <<"Queues", "ms2@udd_queue">>, "JNDIName")
       = VStr("jms/ms2@udd_queue")

====
